---- MODULE Spec2Model ----
(***************************************************************************)
(* One pRetry session of p-retry-ts (src/src/index.ts): the attempt        *)
(* callback handed to the `retry` scheduler, the classification of a       *)
(* failure, the shouldRetry / onFailedAttempt callbacks, the abort signal   *)
(* and the settlement of the returned promise.                             *)
(*                                                                         *)
(* JavaScript values are records tagged by `cls`.  Every await of the      *)
(* attempt callback is a suspension point, so the callback is cut into one *)
(* action per await; the abort event may fire between any two of them.     *)
(***************************************************************************)
EXTENDS Integers, Sequences, FiniteSets, TLC

\* Largest `retries` option a session is created with.
MaxRetries == 2

(***************************************************************************)
(* Values                                                                  *)
(***************************************************************************)
undefined == [cls |-> "undefined"]

String(s) == [cls |-> "string", value |-> s]

\* new Error(message)
Error(message) ==
  [cls |-> "Error", name |-> "Error", message |-> message, stack |-> TRUE]

\* new TypeError(message); Safari's network errors carry no stack
TypeError(message, stack) ==
  [cls |-> "TypeError", name |-> "TypeError", message |-> message, stack |-> stack]

\* error instanceof Error
instanceofError(v) ==
  v.cls \in {"Error", "TypeError", "AbortError", "FailedAttemptError"}

AbortError(message) ==
  IF instanceofError(message)
  THEN [cls |-> "AbortError", name |-> "AbortError",
        message |-> message.message, stack |-> TRUE,
        originalError |-> message]
  ELSE [cls |-> "AbortError", name |-> "AbortError",
        message |-> message.value, stack |-> TRUE,
        originalError |-> Error(message.value)]

FailedAttemptError(cause) ==
  [cls |-> "FailedAttemptError", name |-> "Error",
   message |-> cause.message, stack |-> TRUE,
   cause |-> cause, attemptNumber |-> 0, retriesLeft |-> 0]

(***************************************************************************)
(* isNetworkError                                                          *)
(***************************************************************************)
isError(value) == instanceofError(value)

errorMessages ==
  { "Failed to fetch",
    "NetworkError when attempting to fetch resource.",
    "The Internet connection appears to be offline.",
    "Load failed",
    "Network request failed",
    "fetch failed" }

\* isNetworkError knowing Chrome's message only
isNetworkErrorChromeOnly(error) ==
  LET isValid == isError(error) /\ error.name = "TypeError"
  IN  IF ~isValid THEN FALSE
      ELSE error.message = "Failed to fetch"

isNetworkError(error) ==
  LET isValid == isError(error) /\ error.name = "TypeError"
  IN  IF ~isValid THEN FALSE
      ELSE IF error.message = "Load failed" THEN ~error.stack
      ELSE error.message \in errorMessages

(***************************************************************************)
(* The environment: what the caller's functions may do                     *)
(***************************************************************************)
fixture == [cls |-> "symbol", value |-> "fixture"]

\* What one call of `input` may throw or reject with.
Throwables ==
  { String("foo") }
    \cup { Error("fixture"), Error("custom-error") }
    \cup { AbortError(Error("fixture")), AbortError(String("fixture")) }
    \cup { TypeError(m, TRUE) : m \in errorMessages \cup {"type-error-fixture"} }
    \cup { TypeError("Load failed", FALSE) }

observerError == Error("thrown from onFailedAttempt")

predicateError == Error("thrown from shouldRetry")

\* signal.reason once the controller has aborted
abortReason == Error("User clicked cancel button")

(***************************************************************************)
(* decorateErrorWithCounts                                                 *)
(***************************************************************************)
\* the first attempt counted as a retry
decorateErrorCountingFirst(error, attemptNumber, options) ==
  LET retriesLeft == options.retries - attemptNumber
  IN  [FailedAttemptError(error) EXCEPT
         !.attemptNumber = attemptNumber,
         !.retriesLeft = retriesLeft]

decorateErrorWithCounts(error, attemptNumber, options) ==
  \* (options.retries || 0): retries is a number here, and 0 || 0 is 0
  LET retriesLeft == options.retries - (attemptNumber - 1)
  IN  [FailedAttemptError(error) EXCEPT
         !.attemptNumber = attemptNumber,
         !.retriesLeft = retriesLeft]

(***************************************************************************)
(* The scheduler (npm `retry`, RetryOperation) as pRetry uses it           *)
(***************************************************************************)
\* retry.operation(options): one timeout per permitted retry
retryOperation(options) ==
  [timeouts |-> options.retries, attempts |-> 1, errors |-> <<>>, timer |-> FALSE]

\* operation.stop(): clears the pending timer and forgets the timeouts left
operationStop(o) == [o EXCEPT !.timeouts = 0, !.timer = FALSE]

\* the value operation.retry(err) returns
operationRetryResult(o) == o.timeouts > 0

\* the scheduler after operation.retry(err)
operationRetry(o, err) ==
  IF o.timeouts > 0
  THEN [o EXCEPT !.errors = Append(@, err), !.timeouts = @ - 1, !.timer = TRUE]
  ELSE [o EXCEPT !.errors = Append(@, err)]

\* occurrences of errs[i].message among errs[1..i]
messageCount(errs, i) ==
  Cardinality({j \in 1..i : errs[j].message = errs[i].message})

RECURSIVE mainErrorFrom(_, _, _, _)
mainErrorFrom(errs, i, mainError, mainErrorCount) ==
  IF i > Len(errs) THEN mainError
  ELSE IF messageCount(errs, i) >= mainErrorCount
       THEN mainErrorFrom(errs, i + 1, errs[i], messageCount(errs, i))
       ELSE mainErrorFrom(errs, i + 1, mainError, mainErrorCount)

\* operation.mainError(): the error whose message occurs most often
operationMainError(o) ==
  IF Len(o.errors) = 0 THEN [cls |-> "null"]
  ELSE mainErrorFrom(o.errors, 1, [cls |-> "null"], 0)

(***************************************************************************)
(* State                                                                   *)
(***************************************************************************)
VARIABLES
  defaultedOptions,   \* [retries, signal]: signal says whether one was given
  signalAborted,      \* signal.aborted
  listener,           \* abortHandler is registered on the signal
  operation,          \* the scheduler
  pc,                 \* where the attempt callback is suspended
  attemptNumber,      \* the callback's attemptNumber
  error,              \* the callback's caught `error`
  fae,                \* the callback's `fae`
  promise,            \* the returned promise: [state, value]
  inputLog,           \* attempt numbers `input` was invoked with
  outcomeLog,         \* what each completed call of `input` gave
  shouldRetryLog,     \* records handed to shouldRetry
  shouldRetryResults, \* what each completed call of shouldRetry gave
  onFailedAttemptLog, \* records handed to onFailedAttempt
  onFailedAttemptResults, \* what each completed call of onFailedAttempt gave
  retryLog,           \* records handed to operation.retry
  settleLog,          \* every resolve / reject call, effective or not
  abortLog            \* the abort events: attempt and suspension point

vars ==
  << defaultedOptions, signalAborted, listener, operation, pc, attemptNumber,
     error, fae, promise, inputLog, outcomeLog, shouldRetryLog,
     shouldRetryResults, onFailedAttemptLog, onFailedAttemptResults, retryLog,
     settleLog, abortLog >>

\* The state when the Promise executor reaches operation.attempt: options
\* defaulted, scheduler created, abortHandler registered unless the signal is
\* absent or already aborted.
Init ==
  /\ \E r \in 0..MaxRetries, s \in BOOLEAN :
       defaultedOptions = [retries |-> r, signal |-> s]
  /\ signalAborted \in BOOLEAN
  /\ signalAborted => defaultedOptions.signal
  /\ listener = (defaultedOptions.signal /\ ~signalAborted)
  /\ operation = retryOperation(defaultedOptions)
  /\ pc = "init"
  /\ attemptNumber = 0
  /\ error = undefined
  /\ fae = undefined
  /\ promise = [state |-> "pending", value |-> undefined]
  /\ inputLog = <<>>
  /\ outcomeLog = <<>>
  /\ shouldRetryLog = <<>>
  /\ shouldRetryResults = <<>>
  /\ onFailedAttemptLog = <<>>
  /\ onFailedAttemptResults = <<>>
  /\ retryLog = <<>>
  /\ settleLog = <<>>
  /\ abortLog = <<>>

(***************************************************************************)
(* Settlement, teardown                                                    *)
(***************************************************************************)
\* a promise that every resolve / reject call settles anew
settleLastWins(p, state, value) == [state |-> state, value |-> value]

\* resolve(value) / reject(value) of the Promise executor: only the first counts
settle(p, state, value) ==
  IF p.state = "pending" THEN [state |-> state, value |-> value] ELSE p

\* resolve() called without the result
resolveNothing(value) ==
  /\ promise' = settle(promise, "resolved", undefined)
  /\ settleLog' = Append(settleLog, [call |-> "resolve", value |-> undefined])

resolve(value) ==
  /\ promise' = settle(promise, "resolved", value)
  /\ settleLog' = Append(settleLog, [call |-> "resolve", value |-> value])

reject(value) ==
  /\ promise' = settle(promise, "rejected", value)
  /\ settleLog' = Append(settleLog, [call |-> "reject", value |-> value])

\* cleanUp(), applied to the scheduler state o
cleanUp(o) ==
  /\ listener' = FALSE
  /\ operation' = operationStop(o)

\* catch (finalError) that cleans up and forgets to reject
catchFinalErrorNotRejecting(finalError, o) ==
  /\ cleanUp(o)
  /\ pc' = "idle"
  /\ UNCHANGED << promise, settleLog >>

\* catch (finalError) rejecting with finalError as it was caught
catchFinalErrorUndecorated(finalError, o) ==
  /\ cleanUp(o)
  /\ reject(finalError)
  /\ pc' = "idle"

\* catch (finalError): decorate, cleanUp, reject; the callback returns
catchFinalError(finalError, o) ==
  LET faee == decorateErrorWithCounts(finalError, attemptNumber, defaultedOptions)
  IN  /\ cleanUp(o)
      /\ reject(faee)
      /\ pc' = "idle"

\* input called with a zero-based attempt index
invokeInputZeroBased(n) ==
  /\ attemptNumber' = n
  /\ inputLog' = Append(inputLog, n - 1)
  /\ pc' = "input"

\* The callback invokes input(n) and suspends on its result.
invokeInput(n) ==
  /\ attemptNumber' = n
  /\ inputLog' = Append(inputLog, n)
  /\ pc' = "input"

(***************************************************************************)
(* Classification of what `input` threw                                    *)
(***************************************************************************)
\* the message without the thrown value
nonErrorMessageWithoutValue(value) ==
  "Non-error was thrown. You should only throw errors."

nonErrorMessage(value) ==
  "Non-error was thrown: \"" \o value \o "\". You should only throw errors."

\* isFatal without the AbortError test
isFatalExceptAbortError(e) ==
  \/ ~instanceofError(e)
  \/ (e.cls = "TypeError" /\ ~isNetworkError(e))

\* isFatal without the TypeError test
isFatalExceptTypeError(e) ==
  \/ ~instanceofError(e)
  \/ e.cls = "AbortError"

\* The three throws of the inner try that come before any retry bookkeeping.
isFatal(e) ==
  \/ ~instanceofError(e)
  \/ e.cls = "AbortError"
  \/ (e.cls = "TypeError" /\ ~isNetworkError(e))

\* What the inner try throws for a fatal e.
fatalError(e) ==
  IF ~instanceofError(e) THEN TypeError(nonErrorMessage(e.value), TRUE)
  ELSE IF e.cls = "AbortError" THEN e.originalError
  ELSE e

(***************************************************************************)
(* Actions                                                                 *)
(***************************************************************************)
\* operation.attempt preceded by a check of signal.aborted that rejects
operationAttemptUnlessAborted ==
  /\ pc = "init"
  /\ IF signalAborted
     THEN /\ reject(abortReason)
          /\ pc' = "idle"
          /\ UNCHANGED << attemptNumber, inputLog >>
     ELSE /\ invokeInput(operation.attempts)
          /\ UNCHANGED << promise, settleLog >>
  /\ UNCHANGED << defaultedOptions, signalAborted, listener, operation, error,
                  fae, outcomeLog, shouldRetryLog, shouldRetryResults,
                  onFailedAttemptLog, onFailedAttemptResults, retryLog,
                  abortLog >>

\* operation.attempt(fn): the scheduler calls fn(1) at once.
operationAttempt ==
  /\ pc = "init"
  /\ invokeInput(operation.attempts)
  /\ UNCHANGED << defaultedOptions, signalAborted, listener, operation, error,
                  fae, promise, outcomeLog, shouldRetryLog, shouldRetryResults,
                  onFailedAttemptLog, onFailedAttemptResults, retryLog,
                  settleLog, abortLog >>

\* `await input(attemptNumber)` gives a value: cleanUp(); resolve(result).
inputResolves ==
  /\ pc = "input"
  /\ \E result \in {fixture} :
       /\ outcomeLog' = Append(outcomeLog, result)
       /\ cleanUp(operation)
       /\ resolve(result)
  /\ pc' = "idle"
  /\ UNCHANGED << defaultedOptions, signalAborted, attemptNumber, error, fae,
                  inputLog, shouldRetryLog, shouldRetryResults,
                  onFailedAttemptLog, onFailedAttemptResults, retryLog,
                  abortLog >>

\* `await input(attemptNumber)` throws a value the inner try treats as fatal.
inputRejectsFatal ==
  /\ pc = "input"
  /\ \E e \in Throwables :
       /\ isFatal(e)
       /\ outcomeLog' = Append(outcomeLog, e)
       /\ error' = e
       /\ catchFinalError(fatalError(e), operation)
  /\ UNCHANGED << defaultedOptions, signalAborted, attemptNumber, fae,
                  inputLog, shouldRetryLog, shouldRetryResults,
                  onFailedAttemptLog, onFailedAttemptResults, retryLog,
                  abortLog >>

\* `await input(attemptNumber)` throws a retryable error: the record is built
\* and shouldRetry(fae) is called.
inputRejectsRetryable ==
  /\ pc = "input"
  /\ \E e \in Throwables :
       /\ ~isFatal(e)
       /\ outcomeLog' = Append(outcomeLog, e)
       /\ error' = e
       /\ fae' = decorateErrorWithCounts(e, attemptNumber, defaultedOptions)
  /\ shouldRetryLog' = Append(shouldRetryLog, fae')
  /\ pc' = "shouldRetry"
  /\ UNCHANGED << defaultedOptions, signalAborted, listener, operation,
                  attemptNumber, promise, inputLog, shouldRetryResults,
                  onFailedAttemptLog, onFailedAttemptResults, retryLog,
                  settleLog, abortLog >>

\* shouldRetryReturns with onFailedAttempt(fae) called but not awaited when
\* shouldRetry said true: operation.retry is asked at once.
shouldRetryReturnsNotAwaitingObserver ==
  /\ pc = "shouldRetry"
  /\ \E answer \in BOOLEAN :
       /\ shouldRetryResults' =
            Append(shouldRetryResults, IF answer THEN "true" ELSE "false")
       /\ onFailedAttemptLog' = Append(onFailedAttemptLog, fae)
       /\ IF ~answer
          THEN /\ operation' = operationStop(operation)
               /\ reject(error)
               /\ pc' = "onFailedAttempt"
               /\ UNCHANGED << listener, retryLog >>
          ELSE /\ retryLog' = Append(retryLog, fae)
               /\ IF operationRetryResult(operation)
                  THEN /\ operation' = operationRetry(operation, fae)
                       /\ pc' = "timer"
                       /\ UNCHANGED << listener, promise, settleLog >>
                  ELSE catchFinalError(
                         operationMainError(operationRetry(operation, fae)),
                         operationRetry(operation, fae))
  /\ UNCHANGED << defaultedOptions, signalAborted, attemptNumber,
                  error, fae, inputLog, outcomeLog, shouldRetryLog,
                  onFailedAttemptResults, abortLog >>

\* shouldRetryReturns with the veto rejecting but not stopping the scheduler
shouldRetryReturnsNotStopping ==
  /\ pc = "shouldRetry"
  /\ \E answer \in BOOLEAN :
       /\ shouldRetryResults' =
            Append(shouldRetryResults, IF answer THEN "true" ELSE "false")
       /\ IF ~answer
          THEN /\ reject(error)
               /\ UNCHANGED operation
          ELSE UNCHANGED << operation, promise, settleLog >>
  /\ onFailedAttemptLog' = Append(onFailedAttemptLog, fae)
  /\ pc' = "onFailedAttempt"
  /\ UNCHANGED << defaultedOptions, signalAborted, listener, attemptNumber,
                  error, fae, inputLog, outcomeLog, shouldRetryLog,
                  onFailedAttemptResults, retryLog, abortLog >>

\* shouldRetryReturns with onFailedAttempt left out once the budget is used
\* up: the last failure goes straight to operation.retry, which refuses.
shouldRetryReturnsLastUnobserved ==
  /\ pc = "shouldRetry"
  /\ \E answer \in BOOLEAN :
       /\ shouldRetryResults' =
            Append(shouldRetryResults, IF answer THEN "true" ELSE "false")
       /\ IF operation.timeouts = 0
          THEN /\ retryLog' = Append(retryLog, fae)
               /\ catchFinalError(
                    operationMainError(operationRetry(operation, fae)),
                    operationRetry(operation, fae))
               /\ UNCHANGED onFailedAttemptLog
          ELSE /\ IF ~answer
                  THEN /\ operation' = operationStop(operation)
                       /\ reject(error)
                  ELSE UNCHANGED << operation, promise, settleLog >>
               /\ onFailedAttemptLog' = Append(onFailedAttemptLog, fae)
               /\ pc' = "onFailedAttempt"
               /\ UNCHANGED << listener, retryLog >>
  /\ UNCHANGED << defaultedOptions, signalAborted, attemptNumber,
                  error, fae, inputLog, outcomeLog, shouldRetryLog,
                  onFailedAttemptResults, abortLog >>

\* shouldRetryReturns with the veto rejecting with the decorated record
shouldRetryReturnsRejectingRecord ==
  /\ pc = "shouldRetry"
  /\ \E answer \in BOOLEAN :
       /\ shouldRetryResults' =
            Append(shouldRetryResults, IF answer THEN "true" ELSE "false")
       /\ IF ~answer
          THEN /\ operation' = operationStop(operation)
               /\ reject(fae)
          ELSE UNCHANGED << operation, promise, settleLog >>
  /\ onFailedAttemptLog' = Append(onFailedAttemptLog, fae)
  /\ pc' = "onFailedAttempt"
  /\ UNCHANGED << defaultedOptions, signalAborted, listener, attemptNumber,
                  error, fae, inputLog, outcomeLog, shouldRetryLog,
                  onFailedAttemptResults, retryLog, abortLog >>

\* `await shouldRetry(fae)` gives a boolean.  On false: operation.stop();
\* reject(error) -- and the callback goes on to call onFailedAttempt(fae).
shouldRetryReturns ==
  /\ pc = "shouldRetry"
  /\ \E answer \in BOOLEAN :
       /\ shouldRetryResults' =
            Append(shouldRetryResults, IF answer THEN "true" ELSE "false")
       /\ IF ~answer
          THEN /\ operation' = operationStop(operation)
               /\ reject(error)
          ELSE UNCHANGED << operation, promise, settleLog >>
  /\ onFailedAttemptLog' = Append(onFailedAttemptLog, fae)
  /\ pc' = "onFailedAttempt"
  /\ UNCHANGED << defaultedOptions, signalAborted, listener, attemptNumber,
                  error, fae, inputLog, outcomeLog, shouldRetryLog,
                  onFailedAttemptResults, retryLog, abortLog >>

\* `await shouldRetry(fae)` throws: caught as finalError.
shouldRetryThrows ==
  /\ pc = "shouldRetry"
  /\ shouldRetryResults' = Append(shouldRetryResults, "throw")
  /\ catchFinalError(predicateError, operation)
  /\ UNCHANGED << defaultedOptions, signalAborted, attemptNumber, error, fae,
                  inputLog, outcomeLog, shouldRetryLog, onFailedAttemptLog,
                  onFailedAttemptResults, retryLog, abortLog >>

\* `await onFailedAttempt(fae)` returns: operation.retry(fae); when it says
\* false, operation.mainError() is thrown and caught as finalError.
onFailedAttemptReturns ==
  /\ pc = "onFailedAttempt"
  /\ onFailedAttemptResults' = Append(onFailedAttemptResults, "return")
  /\ retryLog' = Append(retryLog, fae)
  /\ LET o1 == operationRetry(operation, fae)
     IN  IF operationRetryResult(operation)
         THEN /\ operation' = o1
              /\ pc' = "timer"
              /\ UNCHANGED << listener, promise, settleLog >>
         ELSE catchFinalError(operationMainError(o1), o1)
  /\ UNCHANGED << defaultedOptions, signalAborted, attemptNumber, error, fae,
                  inputLog, outcomeLog, shouldRetryLog, shouldRetryResults,
                  onFailedAttemptLog, abortLog >>

\* `await onFailedAttempt(fae)` throws: caught as finalError.
onFailedAttemptThrows ==
  /\ pc = "onFailedAttempt"
  /\ onFailedAttemptResults' = Append(onFailedAttemptResults, "throw")
  /\ catchFinalError(observerError, operation)
  /\ UNCHANGED << defaultedOptions, signalAborted, attemptNumber, error, fae,
                  inputLog, outcomeLog, shouldRetryLog, shouldRetryResults,
                  onFailedAttemptLog, retryLog, abortLog >>

\* The scheduler's retry timer fires: _attempts++, fn(_attempts).
timerFires ==
  /\ pc = "timer"
  /\ operation.timer
  /\ operation' = [operation EXCEPT !.attempts = @ + 1, !.timer = FALSE]
  /\ invokeInput(operation.attempts + 1)
  /\ UNCHANGED << defaultedOptions, signalAborted, listener, error, fae,
                  promise, outcomeLog, shouldRetryLog, shouldRetryResults,
                  onFailedAttemptLog, onFailedAttemptResults, retryLog,
                  settleLog, abortLog >>

\* abortHandler without operation.stop()
abortHandlerNotStopping ==
  /\ reject(abortReason)
  /\ listener' = FALSE
  /\ UNCHANGED << operation, pc >>

\* abortHandler: operation.stop(); reject(signal.reason).  Registered with
\* {once: true}, so it is gone after it ran.
abortHandler ==
  /\ operation' = operationStop(operation)
  /\ reject(abortReason)
  /\ listener' = FALSE
  /\ pc' = IF pc = "timer" THEN "idle" ELSE pc

\* The controller aborts the signal while the session is under way; the
\* event reaches abortHandler if it is (still) registered.
abort ==
  /\ defaultedOptions.signal
  /\ ~signalAborted
  /\ pc # "init"
  /\ signalAborted' = TRUE
  /\ abortLog' = Append(abortLog, [attemptNumber |-> attemptNumber, pc |-> pc,
                                   state |-> promise.state,
                                   listener |-> listener])
  /\ IF listener
     THEN abortHandler
     ELSE UNCHANGED << operation, promise, settleLog, listener, pc >>
  /\ UNCHANGED << defaultedOptions, attemptNumber, error, fae, inputLog,
                  outcomeLog, shouldRetryLog, shouldRetryResults,
                  onFailedAttemptLog, onFailedAttemptResults, retryLog >>

Next ==
  \/ operationAttempt
  \/ inputResolves
  \/ inputRejectsFatal
  \/ inputRejectsRetryable
  \/ shouldRetryReturns
  \/ shouldRetryThrows
  \/ onFailedAttemptReturns
  \/ onFailedAttemptThrows
  \/ timerFires
  \/ abort

Spec == Init /\ [][Next]_vars

\* Every step but the abort event: the steps the session takes by itself.
Progress ==
  \/ operationAttempt
  \/ inputResolves
  \/ inputRejectsFatal
  \/ inputRejectsRetryable
  \/ shouldRetryReturns
  \/ shouldRetryThrows
  \/ onFailedAttemptReturns
  \/ onFailedAttemptThrows
  \/ timerFires

\* Every call of input, shouldRetry and onFailedAttempt completes and the
\* scheduler's timers fire; the controller may or may not abort.
FairSpec == Spec /\ WF_vars(Progress)

(***************************************************************************)
(* Vocabulary of the properties                                            *)
(***************************************************************************)
Attempts == 1..Len(outcomeLog)

Succeeded(k) == outcomeLog[k].cls = "symbol"

Retryable(k) == ~Succeeded(k) /\ ~isFatal(outcomeLog[k])

\* abortHandler ran while the promise was still pending: its reject counted
Cancelled == \E i \in 1..Len(abortLog) : abortLog[i].state = "pending"

Vetoed(k) == k <= Len(shouldRetryResults) /\ shouldRetryResults[k] = "false"

(***************************************************************************)
(* C1                                                                      *)
(***************************************************************************)
\* C1 (as stated): if attempts 1..k-1 fail with a retryable error and attempt
\* k succeeds, the session is resolved with attempt k's value and input has
\* been invoked exactly k times.
C1_SuccessResolves ==
  \A k \in Attempts :
    (Succeeded(k) /\ \A j \in 1..(k - 1) : Retryable(j))
      => /\ promise = [state |-> "resolved", value |-> outcomeLog[k]]
         /\ Len(inputLog) = k

\* C1 (amended): the same, for a session whose abort signal has not fired
\* before attempt k completed; the invocation count holds in every case.
C1_SuccessResolvesUnlessCancelled ==
  \A k \in Attempts :
    (Succeeded(k) /\ \A j \in 1..(k - 1) : Retryable(j))
      => /\ Len(inputLog) = k
         /\ ~Cancelled =>
              promise = [state |-> "resolved", value |-> outcomeLog[k]]

\* Two retryable failures, then success on the third attempt.
C1_Witness ==
  /\ Len(outcomeLog) = 3
  /\ Retryable(1) /\ Retryable(2) /\ Succeeded(3)
  /\ promise = [state |-> "resolved", value |-> fixture]
  /\ Len(inputLog) = 3

AllFailedQuietly ==
  /\ \A k \in Attempts : Retryable(k)
  /\ \A i \in 1..Len(shouldRetryResults) : shouldRetryResults[i] = "true"
  /\ \A i \in 1..Len(onFailedAttemptResults) :
       onFailedAttemptResults[i] = "return"
  /\ abortLog = <<>>

\* C3: when every attempt fails with a retryable error, shouldRetry never
\* vetoes, onFailedAttempt never throws and the signal never fires, the
\* session is still pending until input and onFailedAttempt have each been
\* invoked (and have completed) retries + 1 times, neither is ever invoked
\* more often, and the callback chain ends with the session rejected.
C3_ExhaustsBudgetThenRejects ==
  AllFailedQuietly =>
    /\ Len(inputLog) <= defaultedOptions.retries + 1
    /\ Len(onFailedAttemptLog) <= defaultedOptions.retries + 1
    /\ promise.state # "resolved"
    /\ promise.state = "rejected" =>
         /\ Len(inputLog) = defaultedOptions.retries + 1
         /\ Len(onFailedAttemptLog) = defaultedOptions.retries + 1
         /\ Len(onFailedAttemptResults) = defaultedOptions.retries + 1
    /\ pc = "idle" => promise.state = "rejected"
    /\ (pc = "onFailedAttempt" /\ Len(inputLog) = defaultedOptions.retries + 1)
         => promise.state = "pending"

\* Three failed attempts under retries = 2, three observer calls, rejected.
C3_Witness ==
  /\ AllFailedQuietly
  /\ defaultedOptions.retries = 2
  /\ Len(inputLog) = 3
  /\ Len(onFailedAttemptResults) = 3
  /\ pc = "idle"
  /\ promise.state = "rejected"

(***************************************************************************)
(* C4                                                                      *)
(***************************************************************************)
\* C4 (as stated): shouldRetry answering false for the failure of attempt k
\* gives exactly k invocations of input and a session rejected with the
\* very error attempt k threw.
C4_VetoRejectsWithOriginal ==
  \A k \in Attempts :
    Vetoed(k) =>
      /\ Len(inputLog) = k
      /\ promise = [state |-> "rejected", value |-> outcomeLog[k]]

\* C4 (amended): shouldRetry answering false for the failure of attempt k
\* gives exactly k invocations of input, and -- unless the abort signal fired
\* first, which rejects with the signal's reason -- a session rejected with
\* the very error attempt k threw.
C4_VetoRejectsWithOriginalUnlessCancelled ==
  \A k \in Attempts :
    Vetoed(k) =>
      /\ Len(inputLog) = k
      /\ promise.state = "rejected"
      /\ ~Cancelled =>
           promise = [state |-> "rejected", value |-> outcomeLog[k]]

\* A veto on the second attempt with budget left; the callback has finished.
C4_Witness ==
  /\ defaultedOptions.retries = 2
  /\ Vetoed(2)
  /\ ~Cancelled
  /\ pc = "idle"
  /\ Len(inputLog) = 2
  /\ promise = [state |-> "rejected", value |-> outcomeLog[2]]

(***************************************************************************)
(* C5                                                                      *)
(***************************************************************************)
\* C5: when shouldRetry answers false for the failure of attempt k,
\* onFailedAttempt is not invoked for attempt k and operation.retry is not
\* called for it.
C5_VetoShortCircuits ==
  \A k \in Attempts :
    Vetoed(k) =>
      /\ Len(onFailedAttemptLog) < k
      /\ Len(retryLog) < k

(***************************************************************************)
(* C6                                                                      *)
(***************************************************************************)
\* C6: an AbortError thrown by attempt k gives exactly k invocations of
\* input and a session rejected with the AbortError's originalError itself.
C6_AbortErrorRejectsWithOriginal ==
  \A k \in Attempts :
    outcomeLog[k].cls = "AbortError" =>
      /\ Len(inputLog) = k
      /\ promise = [state |-> "rejected", value |-> outcomeLog[k].originalError]

(***************************************************************************)
(* C7                                                                      *)
(***************************************************************************)
\* C7: if onFailedAttempt throws on the failure of attempt k (one that
\* shouldRetry let through), the session is rejected with the value
\* onFailedAttempt threw and input is not invoked after attempt k.
C7_ObserverErrorRejects ==
  \A k \in 1..Len(onFailedAttemptResults) :
    (onFailedAttemptResults[k] = "throw" /\ ~Vetoed(k)) =>
      /\ Len(inputLog) = k
      /\ promise = [state |-> "rejected", value |-> observerError]

(***************************************************************************)
(* C8                                                                      *)
(***************************************************************************)
\* C8: if the signal fires after attempt k has begun and while the session
\* is pending -- whichever await or timer the callback is suspended on --
\* abortHandler is registered, the session is rejected with the signal's
\* reason, and input is never invoked with an attempt number above k.
C8_AbortRejectsWithReason ==
  \A i \in 1..Len(abortLog) :
    LET a == abortLog[i]
    IN  a.state = "pending" =>
          /\ a.attemptNumber >= 1
          /\ a.listener
          /\ promise = [state |-> "rejected", value |-> abortReason]
          /\ \A j \in 1..Len(inputLog) : inputLog[j] <= a.attemptNumber

\* The signal fired during the delay before attempt 2, with budget left.
C8_Witness ==
  /\ defaultedOptions.retries = 2
  /\ Len(abortLog) = 1
  /\ abortLog[1].pc = "timer"
  /\ abortLog[1].state = "pending"
  /\ abortLog[1].attemptNumber = 1
  /\ promise = [state |-> "rejected", value |-> abortReason]
  /\ inputLog = <<1>>

(***************************************************************************)
(* C9                                                                      *)
(***************************************************************************)
\* C9: a TypeError thrown by attempt k that isNetworkError does not
\* recognise ends the session there: input has been invoked exactly k times
\* (once, when it is the first attempt), nothing is scheduled, and the session
\* is rejected -- whatever retries is.
C9_TypeErrorNotRetried ==
  \A k \in Attempts :
    (outcomeLog[k].cls = "TypeError" /\ ~isNetworkError(outcomeLog[k])) =>
      /\ Len(inputLog) = k
      /\ pc = "idle"
      /\ ~operation.timer
      /\ promise.state = "rejected"

\* One invocation under retries = 2.
C9_Witness ==
  /\ defaultedOptions.retries = 2
  /\ outcomeLog = << TypeError("type-error-fixture", TRUE) >>
  /\ inputLog = <<1>>
  /\ promise.state = "rejected"

(***************************************************************************)
(* C10                                                                     *)
(***************************************************************************)
\* abortHandler ran: the scheduler was stopped from outside
Stopped == \E i \in 1..Len(abortLog) : abortLog[i].listener

\* Attempt k's failure was handled as a transient error is: shouldRetry was
\* called with its record; onFailedAttempt was called with it once shouldRetry
\* had answered; and once both had let it through with budget left and no
\* abort, operation.retry was asked and attempt k + 1 is pending or made.
RetriedLikeTransient(k) ==
  /\ Len(shouldRetryLog) >= k
  /\ shouldRetryLog[k].cause = outcomeLog[k]
  /\ (Len(shouldRetryResults) >= k /\ shouldRetryResults[k] # "throw")
       => /\ Len(onFailedAttemptLog) >= k
          /\ onFailedAttemptLog[k].cause = outcomeLog[k]
  /\ ( /\ Len(onFailedAttemptResults) >= k
       /\ shouldRetryResults[k] = "true"
       /\ onFailedAttemptResults[k] = "return"
       /\ k <= defaultedOptions.retries
       /\ ~Stopped )
       => /\ Len(retryLog) >= k
          /\ \/ Len(inputLog) > k
             \/ pc = "timer" /\ operation.timer

\* C10 (as stated): a TypeError whose message is any member of errorMessages
\* is retried like a transient error.
C10_NetworkMessagesRetried ==
  \A k \in Attempts :
    (outcomeLog[k].cls = "TypeError" /\ outcomeLog[k].message \in errorMessages)
      => RetriedLikeTransient(k)

\* C10 (amended): a TypeError whose message is a member of errorMessages is
\* retried like a transient error, except that one with message "Load failed"
\* is so only when it has no stack.
C10_NetworkMessagesRetriedUnlessLoadFailedWithStack ==
  \A k \in Attempts :
    ( /\ outcomeLog[k].cls = "TypeError"
      /\ outcomeLog[k].message \in errorMessages
      /\ outcomeLog[k].message = "Load failed" => ~outcomeLog[k].stack )
      => RetriedLikeTransient(k)

\* "Failed to fetch", then a stackless "Load failed", a third attempt made.
C10_Witness ==
  /\ Len(outcomeLog) >= 2
  /\ outcomeLog[1] = TypeError("Failed to fetch", TRUE)
  /\ outcomeLog[2] = TypeError("Load failed", FALSE)
  /\ Len(onFailedAttemptLog) >= 2
  /\ inputLog = <<1, 2, 3>>

RecognisedNetworkFailure(e) ==
  /\ e.cls = "TypeError"
  /\ e.message \in errorMessages
  /\ e.message = "Load failed" => ~e.stack

\* Attempt k threw a non-Error value, an AbortError, or a TypeError that is
\* no recognised network failure.
FatalFailure(k) ==
  \/ outcomeLog[k].cls = "string"
  \/ outcomeLog[k].cls = "AbortError"
  \/ outcomeLog[k].cls = "TypeError" /\ ~RecognisedNetworkFailure(outcomeLog[k])

\* C12: for a failure classified as fatal, neither shouldRetry nor
\* onFailedAttempt is invoked for that attempt and operation.retry is not
\* called for it.
C12_FatalBypassesCallbacks ==
  \A k \in Attempts :
    FatalFailure(k) =>
      /\ Len(shouldRetryLog) < k
      /\ Len(onFailedAttemptLog) < k
      /\ Len(retryLog) < k
      /\ Len(inputLog) = k

\* A retried failure, then an AbortError on the second attempt.
C12_Witness ==
  /\ defaultedOptions.retries = 2
  /\ Len(outcomeLog) = 2
  /\ outcomeLog[2].cls = "AbortError"
  /\ Len(shouldRetryLog) = 1
  /\ Len(onFailedAttemptLog) = 1
  /\ Len(retryLog) = 1
  /\ pc = "idle"

(***************************************************************************)
(* C13                                                                     *)
(***************************************************************************)
\* The rejection carries the counts of the last attempt made.
Decorated(v) ==
  /\ v.cls = "FailedAttemptError"
  /\ v.attemptNumber = Len(inputLog)
  /\ v.retriesLeft = defaultedOptions.retries - (v.attemptNumber - 1)

C14_SettlesOnce ==
  /\ promise.state = "pending" <=> settleLog = <<>>
  /\ settleLog # <<>> =>
       promise = [state |-> IF settleLog[1].call = "resolve"
                            THEN "resolved" ELSE "rejected",
                  value |-> settleLog[1].value]
  /\ \A i \in 1..Len(abortLog) :
       /\ abortLog[i].state = "pending" =>
            promise = [state |-> "rejected", value |-> abortReason]
       /\ abortLog[i].state = "resolved" =>
            promise = [state |-> "resolved", value |-> fixture]

\* The signal fired while attempt 1 was awaited, and attempt 1 then
\* succeeded: reject came first, resolve second.
C14_Witness ==
  /\ Len(settleLog) = 2
  /\ settleLog[1] = [call |-> "reject", value |-> abortReason]
  /\ settleLog[2] = [call |-> "resolve", value |-> fixture]
  /\ promise = [state |-> "rejected", value |-> abortReason]

(***************************************************************************)
(* C15                                                                     *)
(***************************************************************************)
\* C15: in every state where the session is settled, abortHandler is no
\* longer registered on the signal and the scheduler has been stopped.
C15_SettledMeansTornDown ==
  promise.state # "pending" =>
    /\ ~listener
    /\ operation.timeouts = 0
    /\ ~operation.timer

(***************************************************************************)
(* C16                                                                     *)
(***************************************************************************)
\* Calls of the caller's functions that have begun and not completed.
InProgress ==
  (Len(inputLog) - Len(outcomeLog))
    + (Len(shouldRetryLog) - Len(shouldRetryResults))
    + (Len(onFailedAttemptLog) - Len(onFailedAttemptResults))

\* C16: attempts are strictly sequential.  When attempt n + 1 has begun,
\* attempt n's call of input and its shouldRetry and onFailedAttempt calls
\* have completed; at most one call of input, shouldRetry or onFailedAttempt
\* is in progress at any time.
C16_AttemptsSequential ==
  /\ InProgress \in {0, 1}
  /\ \A n \in 1..Len(inputLog) :
       n + 1 <= Len(inputLog) =>
         /\ Len(outcomeLog) >= n
         /\ Len(shouldRetryResults) >= n
         /\ Len(onFailedAttemptResults) >= n
  /\ pc = "input" =>
       /\ Len(outcomeLog) = Len(inputLog) - 1
       /\ Len(shouldRetryResults) = Len(shouldRetryLog)
       /\ Len(onFailedAttemptResults) = Len(onFailedAttemptLog)

\* Attempt 2 is in flight; both callbacks of attempt 1 have completed.
C16_Witness ==
  /\ pc = "input"
  /\ inputLog = <<1, 2>>
  /\ Len(outcomeLog) = 1
  /\ Len(shouldRetryResults) = 1
  /\ Len(onFailedAttemptResults) = 1

(***************************************************************************)
(* C17                                                                     *)
(***************************************************************************)
\* C17: input is invoked with the attempt indices 1, 2, 3, ... in order,
\* each once, and never more than retries + 1 times.
C17_ConsecutiveIndices ==
  /\ \A j \in 1..Len(inputLog) : inputLog[j] = j
  /\ Len(inputLog) <= defaultedOptions.retries + 1

\* Three invocations under retries = 2.
C17_Witness ==
  /\ defaultedOptions.retries = 2
  /\ inputLog = <<1, 2, 3>>

(***************************************************************************)
(* C18                                                                     *)
(***************************************************************************)
\* C18: once the session has settled, input is never invoked again, and the
\* scheduler is stopped: it holds no timeouts and no pending timer.
C18_NoInvocationAfterSettlement ==
  [][promise.state # "pending" =>
       /\ inputLog' = inputLog
       /\ operation.timeouts = 0
       /\ ~operation.timer]_vars

\* After a veto on attempt 1 with budget left, operation.retry was asked and
\* refused: the callback ended with one invocation.
C18_Witness ==
  /\ defaultedOptions.retries = 2
  /\ Vetoed(1)
  /\ Len(retryLog) = 1
  /\ pc = "idle"
  /\ inputLog = <<1>>
  /\ promise.state = "rejected"

(***************************************************************************)
(* C19                                                                     *)
(***************************************************************************)
\* C19: every session eventually settles and its callback comes to rest,
\* provided every call of input, shouldRetry and onFailedAttempt completes
\* and the scheduler's timers fire.
C19_EventuallySettles == <>(pc = "idle" /\ promise.state # "pending")

\* Both attempts of a retries = 1 session failed; the session is rejected.
C19_Witness ==
  /\ defaultedOptions.retries = 1
  /\ Len(outcomeLog) = 2
  /\ Retryable(1) /\ Retryable(2)
  /\ Len(onFailedAttemptResults) = 2
  /\ pc = "idle"
  /\ promise.state = "rejected"

(***************************************************************************)
(* C20                                                                     *)
(***************************************************************************)
\* The signal was already aborted when pRetry was called.
PreAborted == defaultedOptions.signal /\ signalAborted /\ abortLog = <<>>

\* C20: with a signal that is already aborted, abortHandler is not
\* registered and the session runs as one without a signal: attempt 1 is made,
\* retryable failures are retried under the normal policy, a success resolves
\* the session, and no rejection is the signal's reason.
C20_PreAbortedSignalIgnored ==
  PreAborted =>
    /\ ~listener
    /\ pc # "init" => (inputLog # <<>> /\ inputLog[1] = 1)
    /\ \A i \in 1..Len(settleLog) : settleLog[i].value # abortReason
    /\ \A k \in Attempts :
         /\ Retryable(k) => RetriedLikeTransient(k)
         /\ Succeeded(k) =>
              promise = [state |-> "resolved", value |-> outcomeLog[k]]
    /\ promise.state = "rejected" =>
         IF Vetoed(Len(outcomeLog))
         THEN promise.value = outcomeLog[Len(outcomeLog)]
         ELSE Decorated(promise.value)

\* An already aborted signal, one retried failure, success on attempt 2.
C20_Witness ==
  /\ PreAborted
  /\ inputLog = <<1, 2>>
  /\ Len(outcomeLog) = 2
  /\ Retryable(1)
  /\ promise = [state |-> "resolved", value |-> fixture]

====
